---- MODULE Spec2Model ----
(***************************************************************************)
(* token-metadata-cli (src/main.rs): one invocation of the tool is a       *)
(* straight-line run of main -> create_metadata | update_metadata.  The    *)
(* run is cut at every fallible call (each `?`); pc names the next step.   *)
(* Text is a tuple of one-character strings, Option<T> is a tuple of       *)
(* length <= 1, and the chain is the one persistent store.                 *)
(***************************************************************************)
EXTENDS Integers, Sequences, FiniteSets, TLC

VARIABLES
    chain,        \* the remote store: metadata address -> Option<account>
    homeEnv,      \* the HOME environment variable, Option<text>
    runs,         \* invocations started so far
    pc,           \* next step of the running invocation, "done" when it ended
    cli,          \* Cli as parsed by clap (keypair, command with its fields)
    expanded,     \* load_keypair: the expanded path
    payer,        \* Option<Keypair>
    mint_pubkey,  \* Option<Pubkey>
    metadata_pda, \* Option<Pubkey>
    metadata_account, \* update: Option<bytes of the fetched account>
    existing,     \* update: Option<decoded Metadata>
    updated,      \* update: Option<<<updated_name, updated_symbol, updated_uri>>>
    shown,        \* update: the old values as printed (padding stripped)
    ix,           \* Option<instruction>
    recent_blockhash, \* Option<blockhash>
    reply,        \* what the endpoint answered to the submission ("" before)
    outcome,      \* the Result main returns
    steps,        \* the steps this invocation performed, in order
    lastUpdate    \* Option<the last successful update: its arguments, the record it left>

vars == <<chain, homeEnv, runs, pc, cli, expanded, payer, mint_pubkey, metadata_pda,
          metadata_account, existing, updated, shown, ix, recent_blockhash, reply,
          outcome, steps, lastUpdate>>

(* ------------------------------ bounds --------------------------------- *)
MaxRuns == 2

(* --------------------------- Option and text --------------------------- *)
None == <<>>
Some(x) == <<x>>

NUL == "\\0"

StartsWith(s, c) == Len(s) > 0 /\ s[1] = c

\* str::replacen(c, to, 1): the first occurrence of c replaced by to
RECURSIVE ReplaceFirst(_, _, _)
ReplaceFirst(s, c, to) ==
    IF s = <<>> THEN <<>>
    ELSE IF Head(s) = c THEN to \o Tail(s)
    ELSE <<Head(s)>> \o ReplaceFirst(Tail(s), c, to)

\* str::trim_end_matches('\0')
RECURSIVE TrimEndNul(_)
TrimEndNul(s) ==
    IF s # <<>> /\ s[Len(s)] = NUL THEN TrimEndNul(SubSeq(s, 1, Len(s) - 1)) ELSE s

(* ------------------------------ key loader ----------------------------- *)
expand_tilde(path, home) ==
    IF StartsWith(path, "~") /\ home # None
    THEN ReplaceFirst(path, "~", home[1])
    ELSE path

\* the key files that exist and parse on the local disk
KeyFiles == { <<"/", "u", "/", "k">>, <<"/", "k">> }

read_keypair_file(path) == IF path \in KeyFiles THEN Some("payer") ELSE None

(* ---------------------------- address deriver -------------------------- *)
TOKEN_METADATA_PROGRAM_ID == "metaqbxx"

Base58 == { "M", "1", "2" }

\* Pubkey::from_str: every character must be in the base58 alphabet
PubkeyFromStr(text) ==
    IF text # <<>> /\ \A i \in 1..Len(text) : text[i] \in Base58 THEN Some(text) ELSE None

find_metadata_pda(mint) == <<"metadata", TOKEN_METADATA_PROGRAM_ID, mint>>

(* ------------------------------ the chain ------------------------------ *)
MintTexts == { <<"M", "1">>, <<"M", "0">> }

Addresses == { find_metadata_pda(t) : t \in { m \in MintTexts : PubkeyFromStr(m) # None } }

Creator == [address |-> "creator1", verified |-> TRUE, share |-> 100]

\* a record with every optional part present and null-padded text
RichData ==
    [name |-> <<"O", NUL>>, symbol |-> <<"T", NUL>>, uri |-> <<NUL, NUL>>,
     seller_fee_basis_points |-> 500,
     creators |-> Some(<<Creator>>),
     collection |-> Some([verified |-> TRUE, key |-> "collection1"]),
     uses |-> Some([use_method |-> "Burn", remaining |-> 1, total |-> 2])]

PlainData ==
    [name |-> <<"P">>, symbol |-> <<"Q", NUL>>, uri |-> <<"V">>,
     seller_fee_basis_points |-> 0,
     creators |-> None, collection |-> None, uses |-> None]

\* an account as stored: the one-byte discriminator, whether the buffer is whole,
\* the mutability flag and the record
Account(key, intact, is_mutable, data) ==
    [key |-> key, intact |-> intact, is_mutable |-> is_mutable, data |-> data]

InitAccounts ==
    { Account("MetadataV1", TRUE, TRUE, RichData),
      Account("MetadataV1", TRUE, TRUE, PlainData),
      Account("MetadataV1", TRUE, FALSE, PlainData),
      Account("EditionV1", TRUE, TRUE, PlainData),
      Account("MetadataV1", FALSE, TRUE, PlainData) }

(* ---------------------------- command lines ---------------------------- *)
KeypairArgs == { <<"~", "/", "k">>, <<"/", "k">>, <<"~", "k">> }

HomeValues == { None, Some(<<"/", "u">>) }

CreateCommands ==
    [kind : {"Create"}, mint : MintTexts, name : { <<"N">> }, symbol : { <<"S">> },
     uri : { <<>>, <<"U">> }, mutable : BOOLEAN, seller_fee_basis_points : { 0, 500 }]

UpdateCommands ==
    [kind : {"Update"}, mint : MintTexts, name : { None, Some(<<"N">>) },
     symbol : { None, Some(<<"S">>) }, uri : { None, Some(<<>>), Some(<<"U">>) }]

Commands == CreateCommands \cup UpdateCommands

NoCli == [keypair |-> <<>>, command |-> [kind |-> "none"]]

(* ------------------------------- results ------------------------------- *)
Running == [status |-> "running", step |-> "", context |-> "", cause |-> ""]
Ok == [status |-> "ok", step |-> "", context |-> "", cause |-> ""]
Err(step, context, cause) ==
    [status |-> "err", step |-> step, context |-> context, cause |-> cause]

\* the `?` operator: an error returns from main at once
AfterFailure_RetryRead(step, cause) == IF step = "blockhash" THEN "blockhash" ELSE "done"
AfterFailure_Resubmit(step, cause) == IF cause = "BlockhashNotFound" THEN "blockhash" ELSE "done"
AfterFailure(step, cause) == "done"

KeyContext == "Failed to read keypair from"
MintContext == "Invalid mint address"
FetchContext == "Failed to fetch metadata account. Does it exist?"
DecodeContext == "Failed to deserialize metadata"
NoContext == ""
SendContext(kind) ==
    IF kind = "Create" THEN "Failed to send create metadata transaction"
    ELSE "Failed to send update metadata transaction"

(* ---------------------------- control flow ----------------------------- *)
\* the order of the statements of main, create_metadata and update_metadata
NextStep_MintFirst(step, kind) ==
    CASE step = "parse_args" -> "parse_mint"
      [] step = "parse_mint" -> "load_keypair"
      [] step = "load_keypair" -> IF kind = "Create" THEN "create_build" ELSE "fetch"
      [] step = "create_build" -> "blockhash"
      [] step = "fetch" -> "decode"
      [] step = "decode" -> "update_build"
      [] step = "update_build" -> "blockhash"
      [] step = "blockhash" -> "submit"
      [] step = "submit" -> "report"
      [] OTHER -> "done"
NextStep_TokenFirst(step, kind) ==
    CASE step = "parse_args" -> "load_keypair"
      [] step = "load_keypair" -> "parse_mint"
      [] step = "parse_mint" -> IF kind = "Create" THEN "create_build" ELSE "blockhash"
      [] step = "create_build" -> "blockhash"
      [] step = "blockhash" -> IF kind = "Create" THEN "submit" ELSE "fetch"
      [] step = "fetch" -> "decode"
      [] step = "decode" -> "update_build"
      [] step = "update_build" -> "submit"
      [] step = "submit" -> "report"
      [] OTHER -> "done"
NextStep(step, kind) ==
    CASE step = "parse_args" -> "load_keypair"
      [] step = "load_keypair" -> "parse_mint"
      [] step = "parse_mint" -> IF kind = "Create" THEN "create_build" ELSE "fetch"
      [] step = "create_build" -> "blockhash"
      [] step = "fetch" -> "decode"
      [] step = "decode" -> "update_build"
      [] step = "update_build" -> "blockhash"
      [] step = "blockhash" -> "submit"
      [] step = "submit" -> "report"
      [] OTHER -> "done"

(* --------------------------- the update merge -------------------------- *)
\* Option::unwrap_or
unwrap_or_Trimmed(opt, default) == IF opt = None THEN TrimEndNul(default) ELSE opt[1]
unwrap_or(opt, default) == IF opt = None THEN default ELSE opt[1]

\* the DataV2 of update_metadata, from the decoded record and the three updated texts
NewData_Fresh(e, updated_name, updated_symbol, updated_uri) ==
    [name |-> updated_name, symbol |-> updated_symbol, uri |-> updated_uri,
     seller_fee_basis_points |-> e.seller_fee_basis_points,
     creators |-> None, collection |-> None, uses |-> None]
NewData_Swapped(e, updated_name, updated_symbol, updated_uri) ==
    [name |-> updated_symbol, symbol |-> updated_name, uri |-> updated_uri,
     seller_fee_basis_points |-> e.seller_fee_basis_points,
     creators |-> e.creators, collection |-> e.collection, uses |-> e.uses]
NewData(e, updated_name, updated_symbol, updated_uri) ==
    [name |-> updated_name, symbol |-> updated_symbol, uri |-> updated_uri,
     seller_fee_basis_points |-> e.seller_fee_basis_points,
     creators |-> e.creators,
     collection |->
        IF e.collection = None THEN None
        ELSE Some([verified |-> e.collection[1].verified, key |-> e.collection[1].key]),
     uses |->
        IF e.uses = None THEN None
        ELSE Some([use_method |-> e.uses[1].use_method,
                   remaining |-> e.uses[1].remaining, total |-> e.uses[1].total])]

\* the DataV2 of create_metadata
CreateData(c) ==
    [name |-> c.name, symbol |-> c.symbol, uri |-> c.uri,
     seller_fee_basis_points |-> c.seller_fee_basis_points,
     creators |-> None, collection |-> None, uses |-> None]

(* ------------------------- the remote endpoint ------------------------- *)
\* get_account_data: an absent account is an error, a present one is read or the
\* transport fails
FetchReplies_Empty(stored) == IF stored = None THEN {"ok"} ELSE {"ok", "transport"}
FetchReplies(stored) == IF stored = None THEN {"AccountNotFound"} ELSE {"ok", "transport"}

\* Metadata::from_bytes: the discriminator and the buffer must match the layout
Decodes(bytes) == bytes # None /\ bytes[1].key = "MetadataV1" /\ bytes[1].intact

\* whether the metadata program accepts the instruction against the stored account
Accepts(store, instr) ==
    IF instr.kind = "Create" THEN store[instr.metadata] = None
    ELSE /\ Decodes(store[instr.metadata])
         /\ store[instr.metadata][1].is_mutable

\* the store after the instruction lands
Apply(store, instr) ==
    IF instr.kind = "Create"
    THEN [store EXCEPT ![instr.metadata] =
             Some(Account("MetadataV1", TRUE, instr.is_mutable, instr.data))]
    ELSE [store EXCEPT ![instr.metadata] = Some([@[1] EXCEPT !.data = instr.data])]

\* send_and_confirm_transaction_with_spinner: confirmed, rejected because the
\* blockhash is no longer valid, or rejected for any other reason
SubmitReplies(store, instr) ==
    {"BlockhashNotFound", "TransactionError"} \cup
        (IF Accepts(store, instr) THEN {"confirmed"} ELSE {})

(* -------------------------------- Init --------------------------------- *)
Init ==
    /\ chain \in [Addresses -> {None} \cup { Some(a) : a \in InitAccounts }]
    /\ homeEnv \in HomeValues
    /\ runs = 0
    /\ pc = "idle"
    /\ cli = NoCli
    /\ expanded = <<>>
    /\ payer = None
    /\ mint_pubkey = None
    /\ metadata_pda = None
    /\ metadata_account = None
    /\ existing = None
    /\ updated = None
    /\ shown = <<>>
    /\ ix = None
    /\ recent_blockhash = None
    /\ reply = ""
    /\ outcome = Running
    /\ steps = <<>>
    /\ lastUpdate = None

Kind == cli.command.kind

\* `?` on an Err: main returns it
Fail(step, context, cause) ==
    /\ outcome' = Err(step, context, cause)
    /\ pc' = AfterFailure(step, cause)

(* ------------------------------- actions ------------------------------- *)
\* a fresh process: Cli::parse()
Start(k, c, h) ==
    /\ pc \in {"idle", "done"}
    /\ runs < MaxRuns
    /\ runs' = runs + 1
    /\ cli' = [keypair |-> k, command |-> c]
    /\ homeEnv' = h
    /\ pc' = NextStep("parse_args", c.kind)
    /\ steps' = <<"parse_args">>
    /\ outcome' = Running
    /\ expanded' = <<>>
    /\ payer' = None
    /\ mint_pubkey' = None
    /\ metadata_pda' = None
    /\ metadata_account' = None
    /\ existing' = None
    /\ updated' = None
    /\ shown' = <<>>
    /\ ix' = None
    /\ recent_blockhash' = None
    /\ reply' = ""
    /\ UNCHANGED <<chain, lastUpdate>>

\* main: load_keypair(&cli.keypair)?, then the endpoint and wallet lines
LoadKeypair ==
    /\ pc = "load_keypair"
    /\ LET e == expand_tilde(cli.keypair, homeEnv)
           kp == read_keypair_file(e)
       IN /\ expanded' = e
          /\ IF kp = None
             THEN /\ Fail("load_keypair", KeyContext, "read_keypair_file")
                  /\ steps' = Append(steps, "load_keypair")
                  /\ UNCHANGED payer
             ELSE /\ payer' = kp
                  /\ steps' = steps \o <<"load_keypair", "print_header">>
                  /\ pc' = NextStep("load_keypair", Kind)
                  /\ UNCHANGED outcome
    /\ UNCHANGED <<chain, homeEnv, runs, cli, mint_pubkey, metadata_pda, metadata_account,
                   existing, updated, shown, ix, recent_blockhash, reply, lastUpdate>>

\* main: Pubkey::from_str(&mint).context("Invalid mint address")?
ParseMint ==
    /\ pc = "parse_mint"
    /\ LET k == PubkeyFromStr(cli.command.mint)
       IN IF k = None
          THEN /\ Fail("parse_mint", MintContext, "ParsePubkeyError")
               /\ UNCHANGED mint_pubkey
          ELSE /\ mint_pubkey' = k
               /\ pc' = NextStep("parse_mint", Kind)
               /\ UNCHANGED outcome
    /\ steps' = Append(steps, "parse_mint")
    /\ UNCHANGED <<chain, homeEnv, runs, cli, expanded, payer, metadata_pda,
                   metadata_account, existing, updated, shown, ix, recent_blockhash,
                   reply, lastUpdate>>

\* create_metadata up to the built instruction
CreateBuild ==
    /\ pc = "create_build"
    /\ LET pda == find_metadata_pda(mint_pubkey[1])
       IN /\ metadata_pda' = Some(pda)
          /\ ix' = Some([kind |-> "Create", metadata |-> pda, mint |-> mint_pubkey[1],
                         authority |-> payer[1], data |-> CreateData(cli.command),
                         is_mutable |-> cli.command.mutable])
    /\ steps' = steps \o <<"derive", "print_summary", "build">>
    /\ pc' = NextStep("create_build", Kind)
    /\ UNCHANGED <<chain, homeEnv, runs, cli, expanded, payer, mint_pubkey,
                   metadata_account, existing, updated, shown, recent_blockhash, reply,
                   outcome, lastUpdate>>

\* update_metadata: client.get_account_data(&metadata_pda).context(..)?
FetchAccount ==
    /\ pc = "fetch"
    /\ LET pda == find_metadata_pda(mint_pubkey[1])
       IN /\ metadata_pda' = Some(pda)
          /\ \E r \in FetchReplies(chain[pda]) :
                IF r = "ok"
                THEN /\ metadata_account' = chain[pda]
                     /\ pc' = NextStep("fetch", Kind)
                     /\ UNCHANGED outcome
                ELSE /\ Fail("fetch", FetchContext, r)
                     /\ UNCHANGED metadata_account
    /\ steps' = steps \o <<"derive", "fetch">>
    /\ UNCHANGED <<chain, homeEnv, runs, cli, expanded, payer, mint_pubkey, existing,
                   updated, shown, ix, recent_blockhash, reply, lastUpdate>>

\* update_metadata: Metadata::from_bytes(&metadata_account).map_err(..)?
Decode ==
    /\ pc = "decode"
    /\ IF Decodes(metadata_account)
       THEN /\ existing' = Some(metadata_account[1].data)
            /\ pc' = NextStep("decode", Kind)
            /\ UNCHANGED outcome
       ELSE /\ Fail("decode", DecodeContext, "borsh")
            /\ UNCHANGED existing
    /\ steps' = Append(steps, "decode")
    /\ UNCHANGED <<chain, homeEnv, runs, cli, expanded, payer, mint_pubkey, metadata_pda,
                   metadata_account, updated, shown, ix, recent_blockhash, reply,
                   lastUpdate>>

\* update_metadata: the merge, the old -> new lines, the built instruction
UpdateBuild ==
    /\ pc = "update_build"
    /\ LET e == existing[1]
           updated_name == unwrap_or(cli.command.name, e.name)
           updated_symbol == unwrap_or(cli.command.symbol, e.symbol)
           updated_uri == unwrap_or(cli.command.uri, e.uri)
       IN /\ updated' = Some(<<updated_name, updated_symbol, updated_uri>>)
          /\ shown' = <<TrimEndNul(e.name), TrimEndNul(e.symbol), TrimEndNul(e.uri)>>
          /\ ix' = Some([kind |-> "Update", metadata |-> metadata_pda[1],
                         authority |-> payer[1],
                         data |-> NewData(e, updated_name, updated_symbol, updated_uri)])
    /\ steps' = steps \o <<"merge", "print_summary", "build">>
    /\ pc' = NextStep("update_build", Kind)
    /\ UNCHANGED <<chain, homeEnv, runs, cli, expanded, payer, mint_pubkey, metadata_pda,
                   metadata_account, existing, recent_blockhash, reply, outcome,
                   lastUpdate>>

\* client.get_latest_blockhash()?
GetBlockhash ==
    /\ pc = "blockhash"
    /\ \E r \in {"ok", "transport"} :
          IF r = "ok"
          THEN /\ recent_blockhash' = Some("blockhash")
               /\ pc' = NextStep("blockhash", Kind)
               /\ UNCHANGED outcome
          ELSE /\ Fail("blockhash", NoContext, r)
               /\ UNCHANGED recent_blockhash
    /\ steps' = Append(steps, "blockhash")
    /\ UNCHANGED <<chain, homeEnv, runs, cli, expanded, payer, mint_pubkey, metadata_pda,
                   metadata_account, existing, updated, shown, ix, reply, lastUpdate>>

\* Transaction::new_signed_with_payer, then
\* client.send_and_confirm_transaction_with_spinner(&tx).context(..)?
Submit ==
    /\ pc = "submit"
    /\ \E r \in SubmitReplies(chain, ix[1]) :
          /\ reply' = r
          /\ IF r = "confirmed"
             THEN /\ chain' = Apply(chain, ix[1])
                  /\ pc' = NextStep("submit", Kind)
                  /\ UNCHANGED outcome
             ELSE /\ Fail("submit", SendContext(Kind), r)
                  /\ UNCHANGED chain
    /\ steps' = steps \o <<"sign", "submit">>
    /\ UNCHANGED <<homeEnv, runs, cli, expanded, payer, mint_pubkey, metadata_pda,
                   metadata_account, existing, updated, shown, ix, recent_blockhash,
                   lastUpdate>>

\* the success lines, Ok(()) from the command and from main
Report ==
    /\ pc = "report"
    /\ steps' = Append(steps, "print_success")
    /\ outcome' = Ok
    /\ pc' = NextStep("report", Kind)
    /\ lastUpdate' =
          IF Kind = "Update"
          THEN Some([mint |-> cli.command.mint, name |-> cli.command.name,
                     symbol |-> cli.command.symbol, uri |-> cli.command.uri,
                     left |-> chain])
          ELSE None
    /\ UNCHANGED <<chain, homeEnv, runs, cli, expanded, payer, mint_pubkey, metadata_pda,
                   metadata_account, existing, updated, shown, ix, recent_blockhash,
                   reply>>

Next ==
    \/ \E k \in KeypairArgs, c \in Commands, h \in HomeValues : Start(k, c, h)
    \/ LoadKeypair
    \/ ParseMint
    \/ CreateBuild
    \/ FetchAccount
    \/ Decode
    \/ UpdateBuild
    \/ GetBlockhash
    \/ Submit
    \/ Report

Spec == Init /\ [][Next]_vars

(* ------------------------- helpers of the claims ----------------------- *)
Count(seq, x) == Cardinality({ i \in 1..Len(seq) : seq[i] = x })

Has(seq, x) == \E i \in 1..Len(seq) : seq[i] = x

IsPrefix(a, b) == Len(a) <= Len(b) /\ \A i \in 1..Len(a) : a[i] = b[i]

IsNetCall(step) == step \in {"fetch", "blockhash", "submit"}

NetCalls == SelectSeq(steps, IsNetCall)

\* the record the update fetched, as stored
Fetched == metadata_account[1].data

Merged == ix[1].data

Supplied(opt) == opt # None

UpdateBuilt == Kind = "Update" /\ ix # None /\ metadata_account # None

\* a fallible step was performed and did not produce its value
StepFailed ==
    \/ Has(steps, "load_keypair") /\ payer = None
    \/ Has(steps, "parse_mint") /\ mint_pubkey = None
    \/ Has(steps, "fetch") /\ metadata_account = None
    \/ Has(steps, "decode") /\ existing = None
    \/ Has(steps, "blockhash") /\ recent_blockhash = None
    \/ Has(steps, "submit") /\ reply # "confirmed"

\* the statements of an invocation in source order
SourceOrder(kind) ==
    IF kind = "Create"
    THEN <<"parse_args", "load_keypair", "print_header", "parse_mint", "derive",
           "print_summary", "build", "blockhash", "sign", "submit", "print_success">>
    ELSE <<"parse_args", "load_keypair", "print_header", "parse_mint", "derive", "fetch",
           "decode", "merge", "print_summary", "build", "blockhash", "sign", "submit",
           "print_success">>

\* the rest of a path after the home marker, as a path component
RestComponent(path) ==
    IF Len(path) > 1 /\ path[2] = "/" THEN SubSeq(path, 3, Len(path)) ELSE Tail(path)

(* -------------------------------- claims ------------------------------- *)

\* C1: in update_metadata each of name, symbol and uri of the merged record is the
\* supplied value when one was supplied and the fetched value otherwise, padding
\* included; with none supplied the merged record is the fetched record, with exactly
\* one supplied only that field can differ from it.
C1_MergeSuppliedOrFetched ==
    UpdateBuilt =>
        LET c == cli.command
        IN /\ Merged.name = (IF Supplied(c.name) THEN c.name[1] ELSE Fetched.name)
           /\ Merged.symbol = (IF Supplied(c.symbol) THEN c.symbol[1] ELSE Fetched.symbol)
           /\ Merged.uri = (IF Supplied(c.uri) THEN c.uri[1] ELSE Fetched.uri)
           /\ (~Supplied(c.name) /\ ~Supplied(c.symbol) /\ ~Supplied(c.uri)
                  => Merged = Fetched)
           /\ (Supplied(c.name) /\ ~Supplied(c.symbol) /\ ~Supplied(c.uri)
                  => Merged = [Fetched EXCEPT !.name = c.name[1]])
           /\ (~Supplied(c.name) /\ Supplied(c.symbol) /\ ~Supplied(c.uri)
                  => Merged = [Fetched EXCEPT !.symbol = c.symbol[1]])
           /\ (~Supplied(c.name) /\ ~Supplied(c.symbol) /\ Supplied(c.uri)
                  => Merged = [Fetched EXCEPT !.uri = c.uri[1]])

\* an update that supplied only the name, over a record whose other texts are padded
C1_Witness ==
    /\ UpdateBuilt
    /\ Supplied(cli.command.name) /\ ~Supplied(cli.command.symbol) /\ ~Supplied(cli.command.uri)
    /\ Merged.name # Fetched.name
    /\ Has(Merged.symbol, NUL) /\ Has(Merged.uri, NUL)

\* C2: whatever name, symbol and uri are given, the merged record's seller-fee basis
\* points, creators, collection (verified, key) and uses (method, remaining, total)
\* are those of the fetched record.
C2_FrameOfUpdate ==
    UpdateBuilt =>
        /\ Merged.seller_fee_basis_points = Fetched.seller_fee_basis_points
        /\ Merged.creators = Fetched.creators
        /\ Merged.collection = Fetched.collection
        /\ Merged.uses = Fetched.uses

\* all three texts supplied over a record that has fee, creators, collection and uses
C2_Witness ==
    /\ UpdateBuilt
    /\ Supplied(cli.command.name) /\ Supplied(cli.command.symbol) /\ Supplied(cli.command.uri)
    /\ Fetched.seller_fee_basis_points > 0
    /\ Fetched.creators # None /\ Fetched.collection # None /\ Fetched.uses # None
    /\ Merged.uses[1].total > Merged.uses[1].remaining

\* C3: no recovery and no retry: once a step has failed the invocation has ended with
\* a failure outcome naming that step, the failed step is the last one performed, no
\* transaction was submitted after an earlier failure, and each network call was
\* issued at most once.
C3_NoRetry ==
    /\ StepFailed =>
          /\ pc = "done"
          /\ outcome.status = "err"
          /\ steps[Len(steps)] = outcome.step
          /\ (outcome.step # "submit" => ~Has(steps, "submit"))
          /\ ~Has(steps, "print_success")
    /\ outcome.status = "err" => StepFailed
    /\ \A n \in {"fetch", "blockhash", "submit"} : Count(steps, n) <= 1

\* an update whose checkpoint-token read failed after the account was read and decoded
C3_Witness ==
    /\ pc = "done" /\ Kind = "Update"
    /\ outcome.status = "err" /\ outcome.step = "blockhash"
    /\ existing # None /\ ix # None

\* C4: an update against a derived address that holds no account fails at the fetch
\* with the "Does it exist?" context, and neither decodes nor submits.
C4_MissingAccount ==
    (Kind = "Update" /\ Has(steps, "fetch") /\ chain[metadata_pda[1]] = None) =>
        /\ pc = "done"
        /\ outcome = Err("fetch", FetchContext, "AccountNotFound")
        /\ ~Has(steps, "decode")
        /\ ~Has(steps, "submit")

C4_Witness ==
    /\ Kind = "Update" /\ Has(steps, "fetch") /\ chain[metadata_pda[1]] = None
    /\ outcome.step = "fetch" /\ payer # None

C6_Original ==
    outcome.status = "err" =>
        /\ outcome.context # NoContext
        /\ outcome.cause # ""

\* C7: a successful create issued exactly the checkpoint-token read and then the
\* submission; a successful update issued the account read, then the token read, then
\* the submission; nothing else, and the submission last.
C7_NetworkCalls ==
    outcome.status = "ok" =>
        NetCalls = (IF Kind = "Create" THEN <<"blockhash", "submit">>
                    ELSE <<"fetch", "blockhash", "submit">>)

C7_Witness ==
    /\ outcome.status = "ok" /\ Kind = "Update"
    /\ Len(NetCalls) = 3 /\ reply = "confirmed"

\* C8 as stated: the mint address is validated before the key file is read, and the
\* summary is printed after the submission.
C8_Original ==
    /\ (Kind # "none" /\ PubkeyFromStr(cli.command.mint) = None)
          => ~Has(steps, "load_keypair")
    /\ \A i \in 1..Len(steps) :
          steps[i] = "print_summary" => \E j \in 1..(i - 1) : steps[j] = "submit"

\* C8 amended: the steps run in source order: arguments parsed (the mint kept as
\* text), key loaded, endpoint and wallet printed, mint address validated, address
\* derived, (update: fetch, decode, merge), field summary printed, instruction built,
\* token read, transaction signed and submitted, success lines printed; so an invalid
\* mint is rejected only after the key file was read, and only the success lines
\* follow the submission.
C8_SourceOrder ==
    Kind # "none" =>
        /\ IsPrefix(steps, SourceOrder(Kind))
        /\ (outcome.step = "parse_mint" => payer # None)
        /\ (pc = "done" /\ outcome.status = "ok" => steps = SourceOrder(Kind))

\* an invalid mint rejected with the key already loaded
C8_Witness ==
    /\ Kind # "none" /\ outcome.step = "parse_mint"
    /\ payer # None /\ Has(steps, "print_header")

\* C9: an update that succeeds right after a successful update with the same mint,
\* name, symbol and uri arguments leaves the stored record as the first one left it.
C9_UpdateIdempotent ==
    (/\ pc = "report" /\ Kind = "Update" /\ lastUpdate # None
     /\ lastUpdate[1].mint = cli.command.mint
     /\ lastUpdate[1].name = cli.command.name
     /\ lastUpdate[1].symbol = cli.command.symbol
     /\ lastUpdate[1].uri = cli.command.uri)
        => chain = lastUpdate[1].left

\* the second of two equal updates, which changed the name the first time
C9_Witness ==
    /\ pc = "report" /\ Kind = "Update" /\ lastUpdate # None
    /\ lastUpdate[1].name = cli.command.name
    /\ lastUpdate[1].symbol = cli.command.symbol
    /\ lastUpdate[1].uri = cli.command.uri
    /\ Supplied(cli.command.name) /\ ~Supplied(cli.command.symbol)
    /\ chain = lastUpdate[1].left

\* C10 as stated: a path that begins with the home marker, with HOME defined as H,
\* expands to H, a separator, and the rest of the path as a component; any other
\* path, or an unset HOME, leaves the path as it is.
C10_Original ==
    Has(steps, "load_keypair") =>
        expanded = (IF StartsWith(cli.keypair, "~") /\ homeEnv # None
                    THEN homeEnv[1] \o <<"/">> \o RestComponent(cli.keypair)
                    ELSE cli.keypair)

====
